---- MODULE Spec2Model ----
(***************************************************************************)
(* Model of d1-exporter (src/src/main.ts): the SQL statement splitter      *)
(* splitSqlStatements with its helpers handleComments and handleStrings,   *)
(* the driver convertSqlToSqlite that executes the split statements, and   *)
(* the default (export) action that calls the driver and cleans up.        *)
(*                                                                         *)
(* A JavaScript string is modelled as a sequence of one-character strings; *)
(* the empty JavaScript string '' used for a missing neighbour character   *)
(* is the TLA+ string "".                                                  *)
(***************************************************************************)
EXTENDS Integers, Sequences, FiniteSets, TLC

\* ------------------------------------------------------------------------
\* Bounds
\* ------------------------------------------------------------------------

\* Longest enumerated input of the splitter.
MaxLen == 4

\* Longest enumerated input of the driver.
MaxSqlLen == 3

\* Longest enumerated input of a repeated call, and the number of calls made
\* one after the other.
MaxCallLen == 2
MaxCalls == 2

\* ------------------------------------------------------------------------
\* Characters and strings
\* ------------------------------------------------------------------------

\* The characters the scanner distinguishes, one ordinary character ("A"),
\* and the two kinds of whitespace: one that ends a comment, one that does not.
Chars == {"A", ";", "'", "\"", "-", "\\", "\n", " "}

\* Characters removed by String.prototype.trim: the ECMAScript WhiteSpace and
\* LineTerminator characters.  U+0009, U+000A, U+000C, U+000D and U+0020 are
\* written with their escapes, U+000B, U+00A0, U+1680 and U+FEFF as the
\* characters themselves, and the ones a string of this module cannot hold
\* (U+2000..U+200A, U+2028, U+2029, U+202F, U+205F, U+3000) by their
\* JavaScript escape spelled out.
VerticalTab == ""
NoBreakSpace == " "
OghamSpace == " "
ByteOrderMark == "﻿"
WhiteSpace ==
  {" ", "\t", "\n", "\r", "\f", VerticalTab, NoBreakSpace, OghamSpace,
   ByteOrderMark,
   "\\u2000", "\\u2001", "\\u2002", "\\u2003", "\\u2004", "\\u2005",
   "\\u2006", "\\u2007", "\\u2008", "\\u2009", "\\u200a",
   "\\u2028", "\\u2029", "\\u202f", "\\u205f", "\\u3000"}

RECURSIVE SeqsUpTo(_, _)
SeqsUpTo(S, n) ==
  IF n = 0 THEN {<<>>}
  ELSE LET shorter == SeqsUpTo(S, n - 1)
       IN shorter \cup {Append(t, c) : t \in {u \in shorter : Len(u) = n - 1}, c \in S}

\* The inputs quoted by the documentation of the splitter.
ExStringTerminator ==
  <<"I","N","S","E","R","T"," ","I","N","T","O"," ","t"," ",
    "V","A","L","U","E","S"," ","(","'","a",";","b","'",")",";">>
ExCommentTerminator ==
  <<"-","-"," ","c","o","m","m","e","n","t"," ",";"," ","w","i","t","h"," ",
    "t","e","r","m","i","n","a","t","o","r","\n","S","E","L","E","C","T"," ","1",";">>
ExEscapedQuote ==
  <<"S","E","L","E","C","T"," ","'","i","t","\\","'","s","'",";">>
ExNoTerminator == <<"S","E","L","E","C","T"," ","1">>
ExConsecutive == <<"A",";",";","B",";">>
ExCommentAtEof == <<"A",";"," ","-","-","c",";">>
ExStringAtEof == <<"A",";","'","b",";"," ">>

ExTwoStrings ==
  <<"S","E","L","E","C","T"," ","'","a","'",";","S","E","L","E","C","T"," ",
    "'","b","'",";">>
ExTwoStringsFirst ==
  <<"S","E","L","E","C","T"," ","'","a","'",";">>
ExTwoStringsSecond ==
  <<"S","E","L","E","C","T"," ","'","b","'",";">>
ExQuoteInComment ==
  <<"-","-"," ","i","t","'","s","\n","A",";","B",";">>
ExQuoteInCommentFirst ==
  <<"-","-"," ","i","t","'","s","\n","A",";">>
ExDashInString ==
  <<"I","N","S","E","R","T"," ","I","N","T","O"," ","t"," ","V","A","L","U",
    "E","S"," ","(","'","-","-","'",")",";","S","E","L","E","C","T"," ","1",
    ";">>
ExDashInStringFirst ==
  <<"I","N","S","E","R","T"," ","I","N","T","O"," ","t"," ","V","A","L","U",
    "E","S"," ","(","'","-","-","'",")",";">>
ExDashInStringSecond ==
  <<"S","E","L","E","C","T"," ","1",";">>
ExUnicodeSpace ==
  <<ByteOrderMark, "A", ";", VerticalTab, "B", NoBreakSpace, "\\u2028">>
ExOtherQuote ==
  <<"S","E","L","E","C","T"," ","\"","i","t","'","s",";","\"",";">>

Examples ==
  {ExStringTerminator, ExCommentTerminator, ExEscapedQuote, ExNoTerminator,
   ExConsecutive, ExCommentAtEof, ExStringAtEof, ExTwoStrings,
   ExQuoteInComment, ExDashInString, ExOtherQuote, ExUnicodeSpace}

Inputs == SeqsUpTo(Chars, MaxLen) \cup Examples

\* String.prototype.trim
RECURSIVE TrimLeft(_)
TrimLeft(str) ==
  IF str # <<>> /\ Head(str) \in WhiteSpace THEN TrimLeft(Tail(str)) ELSE str

RECURSIVE TrimRight(_)
TrimRight(str) ==
  IF str # <<>> /\ str[Len(str)] \in WhiteSpace
  THEN TrimRight(SubSeq(str, 1, Len(str) - 1))
  ELSE str

Trim(str) == TrimRight(TrimLeft(str))

\* ------------------------------------------------------------------------
\* SQL parsing utility functions
\* ------------------------------------------------------------------------

\* handleComments starting a comment also inside a string.
handleComments_IgnoreString(char, nextChar, context) ==
  IF char = "-" /\ nextChar = "-"
  THEN [shouldContinue |-> TRUE, newInComment |-> TRUE]
  ELSE IF context.inComment /\ (char = "\n" \/ char = "\r")
  THEN [shouldContinue |-> TRUE, newInComment |-> FALSE]
  ELSE [shouldContinue |-> FALSE, newInComment |-> context.inComment]

handleComments(char, nextChar, context) ==
  IF ~context.inString /\ char = "-" /\ nextChar = "-"
  THEN [shouldContinue |-> TRUE, newInComment |-> TRUE]
  ELSE IF context.inComment /\ (char = "\n" \/ char = "\r")
  THEN [shouldContinue |-> TRUE, newInComment |-> FALSE]
  ELSE [shouldContinue |-> FALSE, newInComment |-> context.inComment]

\* handleStrings closing a string at either quote character.
handleStrings_AnyQuote(char, prevChar, context) ==
  IF ~context.inString /\ (char = "'" \/ char = "\"")
  THEN [shouldContinue |-> TRUE, newInString |-> TRUE, newStringChar |-> char]
  ELSE IF context.inString /\ (char = "'" \/ char = "\"") /\ prevChar # "\\"
  THEN [shouldContinue |-> TRUE, newInString |-> FALSE, newStringChar |-> ""]
  ELSE [shouldContinue |-> FALSE, newInString |-> context.inString,
        newStringChar |-> context.stringChar]

\* handleStrings without the test of the previous character.
handleStrings_NoEscape(char, prevChar, context) ==
  IF ~context.inString /\ (char = "'" \/ char = "\"")
  THEN [shouldContinue |-> TRUE, newInString |-> TRUE, newStringChar |-> char]
  ELSE IF context.inString /\ char = context.stringChar
  THEN [shouldContinue |-> TRUE, newInString |-> FALSE, newStringChar |-> ""]
  ELSE [shouldContinue |-> FALSE, newInString |-> context.inString,
        newStringChar |-> context.stringChar]

handleStrings(char, prevChar, context) ==
  IF ~context.inString /\ (char = "'" \/ char = "\"")
  THEN [shouldContinue |-> TRUE, newInString |-> TRUE, newStringChar |-> char]
  ELSE IF context.inString /\ char = context.stringChar /\ prevChar # "\\"
  THEN [shouldContinue |-> TRUE, newInString |-> FALSE, newStringChar |-> ""]
  ELSE [shouldContinue |-> FALSE, newInString |-> context.inString,
        newStringChar |-> context.stringChar]

\* The locals of splitSqlStatements at the head of the loop; i counts the
\* characters consumed so far (the 0-based loop index).
InitScan ==
  [i |-> 0, currentStatement |-> <<>>, inString |-> FALSE, inComment |-> FALSE,
   stringChar |-> "", statements |-> <<>>]

\* The loop body without "if (inString) continue".
LoopBody_NoStringSkip(st, s) ==
  LET char == s[st.i + 1]
      nextChar == IF st.i + 2 <= Len(s) THEN s[st.i + 2] ELSE ""
      prevChar == IF st.i > 0 THEN s[st.i] ELSE ""
      cur == Append(st.currentStatement, char)
      commentResult ==
        handleComments(char, nextChar,
                       [inString |-> st.inString, inComment |-> st.inComment])
      stringResult ==
        handleStrings(char, prevChar,
                      [inString |-> st.inString, stringChar |-> st.stringChar])
      next == [st EXCEPT !.i = @ + 1, !.currentStatement = cur]
  IN IF commentResult.shouldContinue
     THEN [next EXCEPT !.inComment = commentResult.newInComment]
     ELSE IF st.inComment
     THEN next
     ELSE IF stringResult.shouldContinue
     THEN [next EXCEPT !.inString = stringResult.newInString,
                       !.stringChar = stringResult.newStringChar]
     ELSE IF char = ";"
     THEN [next EXCEPT !.statements = Append(@, Trim(cur)),
                       !.currentStatement = <<>>]
     ELSE next

\* The loop body without "if (inComment) continue".
LoopBody_NoCommentSkip(st, s) ==
  LET char == s[st.i + 1]
      nextChar == IF st.i + 2 <= Len(s) THEN s[st.i + 2] ELSE ""
      prevChar == IF st.i > 0 THEN s[st.i] ELSE ""
      cur == Append(st.currentStatement, char)
      commentResult ==
        handleComments(char, nextChar,
                       [inString |-> st.inString, inComment |-> st.inComment])
      stringResult ==
        handleStrings(char, prevChar,
                      [inString |-> st.inString, stringChar |-> st.stringChar])
      next == [st EXCEPT !.i = @ + 1, !.currentStatement = cur]
  IN IF commentResult.shouldContinue
     THEN [next EXCEPT !.inComment = commentResult.newInComment]
     ELSE IF stringResult.shouldContinue
     THEN [next EXCEPT !.inString = stringResult.newInString,
                       !.stringChar = stringResult.newStringChar]
     ELSE IF st.inString
     THEN next
     ELSE IF char = ";"
     THEN [next EXCEPT !.statements = Append(@, Trim(cur)),
                       !.currentStatement = <<>>]
     ELSE next

\* The loop body pushing the buffer without trim().
LoopBody_NoTrim(st, s) ==
  LET char == s[st.i + 1]
      nextChar == IF st.i + 2 <= Len(s) THEN s[st.i + 2] ELSE ""
      prevChar == IF st.i > 0 THEN s[st.i] ELSE ""
      cur == Append(st.currentStatement, char)
      commentResult ==
        handleComments(char, nextChar,
                       [inString |-> st.inString, inComment |-> st.inComment])
      stringResult ==
        handleStrings(char, prevChar,
                      [inString |-> st.inString, stringChar |-> st.stringChar])
      next == [st EXCEPT !.i = @ + 1, !.currentStatement = cur]
  IN IF commentResult.shouldContinue
     THEN [next EXCEPT !.inComment = commentResult.newInComment]
     ELSE IF st.inComment
     THEN next
     ELSE IF stringResult.shouldContinue
     THEN [next EXCEPT !.inString = stringResult.newInString,
                       !.stringChar = stringResult.newStringChar]
     ELSE IF st.inString
     THEN next
     ELSE IF char = ";"
     THEN [next EXCEPT !.statements = Append(@, cur),
                       !.currentStatement = <<>>]
     ELSE next

\* The loop body without the reset of the buffer after a push.
LoopBody_NoReset(st, s) ==
  LET char == s[st.i + 1]
      nextChar == IF st.i + 2 <= Len(s) THEN s[st.i + 2] ELSE ""
      prevChar == IF st.i > 0 THEN s[st.i] ELSE ""
      cur == Append(st.currentStatement, char)
      commentResult ==
        handleComments(char, nextChar,
                       [inString |-> st.inString, inComment |-> st.inComment])
      stringResult ==
        handleStrings(char, prevChar,
                      [inString |-> st.inString, stringChar |-> st.stringChar])
      next == [st EXCEPT !.i = @ + 1, !.currentStatement = cur]
  IN IF commentResult.shouldContinue
     THEN [next EXCEPT !.inComment = commentResult.newInComment]
     ELSE IF st.inComment
     THEN next
     ELSE IF stringResult.shouldContinue
     THEN [next EXCEPT !.inString = stringResult.newInString,
                       !.stringChar = stringResult.newStringChar]
     ELSE IF st.inString
     THEN next
     ELSE IF char = ";"
     THEN [next EXCEPT !.statements = Append(@, Trim(cur))]
     ELSE next

\* The loop body pushing the buffer as it was before the terminator.
LoopBody_DropTerminator(st, s) ==
  LET char == s[st.i + 1]
      nextChar == IF st.i + 2 <= Len(s) THEN s[st.i + 2] ELSE ""
      prevChar == IF st.i > 0 THEN s[st.i] ELSE ""
      cur == Append(st.currentStatement, char)
      commentResult ==
        handleComments(char, nextChar,
                       [inString |-> st.inString, inComment |-> st.inComment])
      stringResult ==
        handleStrings(char, prevChar,
                      [inString |-> st.inString, stringChar |-> st.stringChar])
      next == [st EXCEPT !.i = @ + 1, !.currentStatement = cur]
  IN IF commentResult.shouldContinue
     THEN [next EXCEPT !.inComment = commentResult.newInComment]
     ELSE IF st.inComment
     THEN next
     ELSE IF stringResult.shouldContinue
     THEN [next EXCEPT !.inString = stringResult.newInString,
                       !.stringChar = stringResult.newStringChar]
     ELSE IF st.inString
     THEN next
     ELSE IF char = ";"
     THEN [next EXCEPT !.statements = Append(@, Trim(st.currentStatement)),
                       !.currentStatement = <<>>]
     ELSE next

\* The loop body dropping a statement that is only its terminator.
LoopBody_SkipEmpty(st, s) ==
  LET char == s[st.i + 1]
      nextChar == IF st.i + 2 <= Len(s) THEN s[st.i + 2] ELSE ""
      prevChar == IF st.i > 0 THEN s[st.i] ELSE ""
      cur == Append(st.currentStatement, char)
      commentResult ==
        handleComments(char, nextChar,
                       [inString |-> st.inString, inComment |-> st.inComment])
      stringResult ==
        handleStrings(char, prevChar,
                      [inString |-> st.inString, stringChar |-> st.stringChar])
      next == [st EXCEPT !.i = @ + 1, !.currentStatement = cur]
  IN IF commentResult.shouldContinue
     THEN [next EXCEPT !.inComment = commentResult.newInComment]
     ELSE IF st.inComment
     THEN next
     ELSE IF stringResult.shouldContinue
     THEN [next EXCEPT !.inString = stringResult.newInString,
                       !.stringChar = stringResult.newStringChar]
     ELSE IF st.inString
     THEN next
     ELSE IF char = ";"
     THEN [next EXCEPT !.statements =
                         IF Trim(cur) = <<";">> THEN @ ELSE Append(@, Trim(cur)),
                       !.currentStatement = <<>>]
     ELSE next

\* The loop body consuming both dashes of "--" in one iteration.
LoopBody_SkipSecondDash(st, s) ==
  LET char == s[st.i + 1]
      nextChar == IF st.i + 2 <= Len(s) THEN s[st.i + 2] ELSE ""
      prevChar == IF st.i > 0 THEN s[st.i] ELSE ""
      cur == Append(st.currentStatement, char)
      commentResult ==
        handleComments(char, nextChar,
                       [inString |-> st.inString, inComment |-> st.inComment])
      stringResult ==
        handleStrings(char, prevChar,
                      [inString |-> st.inString, stringChar |-> st.stringChar])
      next == [st EXCEPT !.i = @ + 1, !.currentStatement = cur]
  IN IF commentResult.shouldContinue
     THEN [next EXCEPT !.inComment = commentResult.newInComment,
                       !.i = IF char = "-" THEN st.i + 2 ELSE st.i + 1]
     ELSE IF st.inComment
     THEN next
     ELSE IF stringResult.shouldContinue
     THEN [next EXCEPT !.inString = stringResult.newInString,
                       !.stringChar = stringResult.newStringChar]
     ELSE IF st.inString
     THEN next
     ELSE IF char = ";"
     THEN [next EXCEPT !.statements = Append(@, Trim(cur)),
                       !.currentStatement = <<>>]
     ELSE next

\* One iteration of the for loop of splitSqlStatements on input s.
LoopBody(st, s) ==
  LET char == s[st.i + 1]
      nextChar == IF st.i + 2 <= Len(s) THEN s[st.i + 2] ELSE ""
      prevChar == IF st.i > 0 THEN s[st.i] ELSE ""
      cur == Append(st.currentStatement, char)
      commentResult ==
        handleComments(char, nextChar,
                       [inString |-> st.inString, inComment |-> st.inComment])
      stringResult ==
        handleStrings(char, prevChar,
                      [inString |-> st.inString, stringChar |-> st.stringChar])
      next == [st EXCEPT !.i = @ + 1, !.currentStatement = cur]
  IN IF commentResult.shouldContinue
     THEN [next EXCEPT !.inComment = commentResult.newInComment]
     ELSE IF st.inComment
     THEN next
     ELSE IF stringResult.shouldContinue
     THEN [next EXCEPT !.inString = stringResult.newInString,
                       !.stringChar = stringResult.newStringChar]
     ELSE IF st.inString
     THEN next
     ELSE IF char = ";"
     THEN [next EXCEPT !.statements = Append(@, Trim(cur)),
                       !.currentStatement = <<>>]
     ELSE next

\* The code after the loop without the test of the buffer.
LastStatement_Always(currentStmt, stmts) == Append(stmts, Trim(currentStmt))

\* The code after the loop appending a terminator to the last statement.
LastStatement_Terminated(currentStmt, stmts) ==
  IF Trim(currentStmt) # <<>>
  THEN Append(stmts, Append(Trim(currentStmt), ";"))
  ELSE stmts

\* The code after the loop: add the last statement (if any).
LastStatement(currentStmt, stmts) ==
  IF Trim(currentStmt) # <<>> THEN Append(stmts, Trim(currentStmt)) ELSE stmts

RECURSIVE ScanFrom(_, _)
ScanFrom(st, s) ==
  IF st.i < Len(s) THEN ScanFrom(LoopBody(st, s), s) ELSE st

\* splitSqlStatements as a function of its argument.
splitSqlStatements(s) ==
  LET st == ScanFrom(InitScan, s)
  IN LastStatement(st.currentStatement, st.statements)

\* ------------------------------------------------------------------------
\* State
\* ------------------------------------------------------------------------

VARIABLES
  pc,                \* position in splitSqlStatements: "idle", "scan", "done"
  sqlContent,        \* the text to split (the content of the SQL file)
  i,                 \* loop index: characters consumed
  currentStatement,  \* the buffer
  inString,
  inComment,
  stringChar,
  statements,        \* the result array
  cpc,               \* position in convertSqlToSqlite ("none": not called)
  sqliteExists,      \* the SQLite file exists
  idx,               \* statements the for-of loop has gone through
  dbLog,             \* the db.exec calls made so far, with their outcome
  warnings,          \* the statement prefixes reported as warnings
  failedOp,          \* the operation whose exception entered the outer catch
  usedFallback,      \* the sqlite3 command line fallback completed
  apc,               \* position in the default (export) action ("none": not run)
  sqlFileExists,     \* the intermediate SQL file exists
  preserveSql,       \* options.preserveSql
  exitCode,          \* the code the process exited with (apc = "exited")
  samePath,          \* the SQL path and the SQLite path name the same file
  hasDbName,         \* a database name was given on the command line
  argc2,             \* process.argv.length === 2: no argument at all
  calls,             \* calls of splitSqlStatements made so far by the caller
  prevEnd,           \* how the scan of the caller's previous call ended
  other              \* the locals of a second, independent invocation

scanVars == <<pc, i, currentStatement, inString, inComment, stringChar>>
convVars == <<cpc, sqliteExists, idx, dbLog, warnings, failedOp, usedFallback>>
optionVars == <<preserveSql, samePath, hasDbName, argc2>>
exportVars == <<apc, sqlFileExists, exitCode, optionVars>>
callVars == <<calls, prevEnd, other>>
vars == <<pc, sqlContent, i, currentStatement, inString, inComment,
          stringChar, statements, cpc, sqliteExists, idx, dbLog, warnings,
          failedOp, usedFallback, apc, sqlFileExists, preserveSql, exitCode,
          samePath, hasDbName, argc2, calls, prevEnd, other>>

Locals ==
  [i |-> i, currentStatement |-> currentStatement, inString |-> inString,
   inComment |-> inComment, stringChar |-> stringChar, statements |-> statements]

\* ------------------------------------------------------------------------
\* splitSqlStatements, one loop iteration per step
\* ------------------------------------------------------------------------

ScanLocalsInit ==
  /\ i = InitScan.i
  /\ currentStatement = InitScan.currentStatement
  /\ inString = InitScan.inString
  /\ inComment = InitScan.inComment
  /\ stringChar = InitScan.stringChar
  /\ statements = InitScan.statements

\* The default action is not running.
ExportIdle ==
  /\ apc = "none"
  /\ sqlFileExists = FALSE
  /\ preserveSql = FALSE
  /\ exitCode = 0
  /\ samePath = FALSE
  /\ hasDbName = FALSE
  /\ argc2 = FALSE

\* No second invocation and no earlier call.
CallsIdle ==
  /\ calls = 1
  /\ prevEnd = "none"
  /\ other = [pc |-> "none"]

ConvLocalsInit ==
  /\ idx = 0
  /\ dbLog = <<>>
  /\ warnings = <<>>
  /\ failedOp = ""
  /\ usedFallback = FALSE

Init ==
  /\ sqlContent \in Inputs
  /\ pc = "scan"
  /\ ScanLocalsInit
  /\ cpc = "none"
  /\ sqliteExists = FALSE
  /\ ConvLocalsInit
  /\ ExportIdle
  /\ CallsIdle

ScanChar ==
  /\ pc = "scan"
  /\ i < Len(sqlContent)
  /\ LET st == LoopBody(Locals, sqlContent)
     IN /\ i' = st.i
        /\ currentStatement' = st.currentStatement
        /\ inString' = st.inString
        /\ inComment' = st.inComment
        /\ stringChar' = st.stringChar
        /\ statements' = st.statements
  /\ UNCHANGED <<pc, sqlContent>>
  /\ UNCHANGED convVars
  /\ UNCHANGED <<exportVars, callVars>>

Finish ==
  /\ pc = "scan"
  /\ i >= Len(sqlContent)
  /\ statements' = LastStatement(currentStatement, statements)
  /\ pc' = "done"
  /\ UNCHANGED <<sqlContent, i, currentStatement, inString, inComment, stringChar>>
  /\ UNCHANGED convVars
  /\ UNCHANGED <<exportVars, callVars>>

Next == ScanChar \/ Finish

Spec == Init /\ [][Next]_vars

\* The function is synchronous: once called, its loop runs to the end.
SpecLive == Init /\ [][Next]_vars /\ WF_vars(Next)

\* ------------------------------------------------------------------------
\* Repeated and independent calls of splitSqlStatements
\* ------------------------------------------------------------------------

CallChars == {"A", ";", "'", "-", "\n"}
CallInputs == SeqsUpTo(CallChars, MaxCallLen)

\* The inputs of the second invocation: one ends inside a string, one inside
\* a comment, one at top level.
OtherInputs == {<<"'", ";">>, <<"-", "-", ";">>, <<"A", ";", ";">>}

\* The locals at the entry of a call that keep the lexical state the
\* previous call ended in, as module-level variables would.
EnterCall_KeepLexState(prev) ==
  [InitScan EXCEPT !.inString = prev.inString,
                   !.inComment = prev.inComment,
                   !.stringChar = prev.stringChar]

\* The locals at the entry of a call, prev being the locals the previous call
\* ended with: they are declared in the function body, so every call starts
\* from the initial values.
EnterCall(prev) == InitScan

InitCalls ==
  /\ sqlContent \in CallInputs
  /\ pc = "scan"
  /\ ScanLocalsInit
  /\ cpc = "none"
  /\ sqliteExists = FALSE
  /\ ConvLocalsInit
  /\ ExportIdle
  /\ calls = 1
  /\ prevEnd = "none"
  /\ \E s \in OtherInputs : other = [pc |-> "scan", sqlContent |-> s, st |-> InitScan]

\* The caller calls splitSqlStatements again, with any input.
CallAgain ==
  /\ pc = "done"
  /\ calls < MaxCalls
  /\ \E s \in CallInputs : sqlContent' = s
  /\ LET st == EnterCall(Locals)
     IN /\ i' = st.i
        /\ currentStatement' = st.currentStatement
        /\ inString' = st.inString
        /\ inComment' = st.inComment
        /\ stringChar' = st.stringChar
        /\ statements' = st.statements
  /\ pc' = "scan"
  /\ calls' = calls + 1
  /\ prevEnd' = IF inString THEN "string" ELSE IF inComment THEN "comment" ELSE "normal"
  /\ UNCHANGED <<other, convVars, exportVars>>

\* One loop iteration of the second invocation.
OtherScanChar ==
  /\ other.pc = "scan"
  /\ other.st.i < Len(other.sqlContent)
  /\ other' = [other EXCEPT !.st = LoopBody(@, other.sqlContent)]
  /\ UNCHANGED <<sqlContent, statements, scanVars, convVars, exportVars, calls, prevEnd>>

\* The second invocation leaves its loop and returns.
OtherFinish ==
  /\ other.pc = "scan"
  /\ other.st.i >= Len(other.sqlContent)
  /\ other' = [other EXCEPT
                 !.pc = "done",
                 !.st.statements = LastStatement(other.st.currentStatement, @)]
  /\ UNCHANGED <<sqlContent, statements, scanVars, convVars, exportVars, calls, prevEnd>>

NextCalls == ScanChar \/ Finish \/ CallAgain \/ OtherScanChar \/ OtherFinish

SpecCalls == InitCalls /\ [][NextCalls]_vars

\* ------------------------------------------------------------------------
\* convertSqlToSqlite
\* ------------------------------------------------------------------------

\* The inputs of the driver: the content of the SQL file.
SqlFiles == SeqsUpTo(Chars, MaxSqlLen)

\* String.prototype.substring(0, n)
Substring0(str, n) == SubSeq(str, 1, IF n < Len(str) THEN n ELSE Len(str))

WarnPrefixLen == 100

\* One db.exec call as it is recorded: which call, its SQL text when it is a
\* statement of the file, and whether the driver accepted it.
DbCall(op, sql, ok) == [op |-> op, sql |-> sql, ok |-> ok]

\* An exception reaches the catch of the outer try.
Caught(op) ==
  /\ cpc' = "fallback"
  /\ failedOp' = op

\* The two paths of the call name one file or two: with one file, what
\* happens to the SQLite file happens to the SQL file.
FilesInit ==
  /\ sqliteExists \in BOOLEAN
  /\ sqlFileExists \in BOOLEAN
  /\ samePath \in BOOLEAN
  /\ samePath => (sqlFileExists = sqliteExists)

InitConvert ==
  /\ sqlContent \in SqlFiles
  /\ pc = "idle"
  /\ ScanLocalsInit
  /\ cpc = "start"
  /\ FilesInit
  /\ ConvLocalsInit
  /\ apc = "none"
  /\ preserveSql = FALSE
  /\ exitCode = 0
  /\ hasDbName = FALSE
  /\ argc2 = FALSE
  /\ CallsIdle

\* The SQLite file is removed or created anew: when it is also the SQL file,
\* the SQL file goes with it and its text is lost.
SqliteFileBecomes(exists) ==
  /\ sqliteExists' = exists
  /\ sqlFileExists' = IF samePath THEN exists ELSE sqlFileExists
  /\ sqlContent' = IF samePath THEN <<>> ELSE sqlContent

\* if (fs.existsSync(sqliteFilePath)) fs.unlinkSync(sqliteFilePath): outside
\* the try, so a failing unlinkSync throws out of convertSqlToSqlite.
ConvStart ==
  /\ cpc = "start"
  /\ IF sqliteExists
     THEN \/ /\ SqliteFileBecomes(FALSE)
             /\ cpc' = "open"
          \/ /\ cpc' = "thrown"
             /\ UNCHANGED <<sqliteExists, sqlFileExists, sqlContent>>
     ELSE /\ cpc' = "open"
          /\ UNCHANGED <<sqliteExists, sqlFileExists, sqlContent>>
  /\ UNCHANGED <<statements, scanVars, idx, dbLog, warnings, failedOp, usedFallback>>
  /\ UNCHANGED <<apc, exitCode, optionVars, callVars>>

\* new Database(sqliteFilePath): creates the file, or throws
ConvOpen ==
  /\ cpc = "open"
  /\ \/ /\ SqliteFileBecomes(TRUE)
        /\ cpc' = "read"
        /\ UNCHANGED failedOp
     \/ /\ Caught("open")
        /\ UNCHANGED <<sqliteExists, sqlFileExists, sqlContent>>
  /\ UNCHANGED <<statements, scanVars, idx, dbLog, warnings, usedFallback>>
  /\ UNCHANGED <<apc, exitCode, optionVars, callVars>>

\* fs.readFileSync(sqlFilePath, 'utf8'): returns the content of the file when
\* there is one, or throws
ConvRead ==
  /\ cpc = "read"
  /\ \/ sqlFileExists /\ cpc' = "split" /\ UNCHANGED failedOp
     \/ Caught("read")
  /\ UNCHANGED <<sqlContent, statements, scanVars, sqliteExists, idx, dbLog,
                 warnings, usedFallback>>
  /\ UNCHANGED <<exportVars, callVars>>

\* const statements = splitSqlStatements(sqlContent)
ConvSplit ==
  /\ cpc = "split"
  /\ statements' = splitSqlStatements(sqlContent)
  /\ cpc' = "begin"
  /\ UNCHANGED <<sqlContent, scanVars, sqliteExists, idx, dbLog, warnings,
                 failedOp, usedFallback>>
  /\ UNCHANGED <<exportVars, callVars>>

\* db.exec('BEGIN TRANSACTION;')
ConvBegin ==
  /\ cpc = "begin"
  /\ \/ /\ dbLog' = Append(dbLog, DbCall("begin", <<>>, TRUE))
        /\ cpc' = "exec"
        /\ UNCHANGED failedOp
     \/ /\ dbLog' = Append(dbLog, DbCall("begin", <<>>, FALSE))
        /\ Caught("begin")
  /\ UNCHANGED <<sqlContent, statements, scanVars, sqliteExists, idx, warnings,
                 usedFallback>>
  /\ UNCHANGED <<exportVars, callVars>>

\* The loop iteration without the inner try/catch: the exception of
\* db.exec(statement) reaches the outer catch.
ConvExec_NoCatch ==
  /\ cpc = "exec"
  /\ idx < Len(statements)
  /\ LET statement == statements[idx + 1]
     IN IF Trim(statement) # <<>>
        THEN \/ /\ dbLog' = Append(dbLog, DbCall("stmt", statement, TRUE))
                /\ idx' = idx + 1
                /\ UNCHANGED <<cpc, failedOp>>
             \/ /\ dbLog' = Append(dbLog, DbCall("stmt", statement, FALSE))
                /\ Caught("stmt")
                /\ UNCHANGED idx
        ELSE /\ idx' = idx + 1
             /\ UNCHANGED <<dbLog, cpc, failedOp>>
  /\ UNCHANGED warnings
  /\ UNCHANGED <<sqlContent, statements, scanVars, sqliteExists, usedFallback>>
  /\ UNCHANGED <<exportVars, callVars>>

\* One iteration of the for-of loop: db.exec(statement) in its own try/catch.
ConvExec ==
  /\ cpc = "exec"
  /\ idx < Len(statements)
  /\ LET statement == statements[idx + 1]
     IN IF Trim(statement) # <<>>
        THEN \/ /\ dbLog' = Append(dbLog, DbCall("stmt", statement, TRUE))
                /\ UNCHANGED warnings
             \/ /\ dbLog' = Append(dbLog, DbCall("stmt", statement, FALSE))
                /\ warnings' = Append(warnings, Substring0(statement, WarnPrefixLen))
        ELSE UNCHANGED <<dbLog, warnings>>
  /\ idx' = idx + 1
  /\ UNCHANGED <<cpc, failedOp>>
  /\ UNCHANGED <<sqlContent, statements, scanVars, sqliteExists, usedFallback>>
  /\ UNCHANGED <<exportVars, callVars>>

\* The loop is over: db.exec('COMMIT;')
ConvCommit ==
  /\ cpc = "exec"
  /\ idx >= Len(statements)
  /\ \/ /\ dbLog' = Append(dbLog, DbCall("commit", <<>>, TRUE))
        /\ cpc' = "vacuum"
        /\ UNCHANGED failedOp
     \/ /\ dbLog' = Append(dbLog, DbCall("commit", <<>>, FALSE))
        /\ Caught("commit")
  /\ UNCHANGED <<sqlContent, statements, scanVars, sqliteExists, idx, warnings,
                 usedFallback>>
  /\ UNCHANGED <<exportVars, callVars>>

\* db.exec('VACUUM;')
ConvVacuum ==
  /\ cpc = "vacuum"
  /\ \/ /\ dbLog' = Append(dbLog, DbCall("vacuum", <<>>, TRUE))
        /\ cpc' = "close"
        /\ UNCHANGED failedOp
     \/ /\ dbLog' = Append(dbLog, DbCall("vacuum", <<>>, FALSE))
        /\ Caught("vacuum")
  /\ UNCHANGED <<sqlContent, statements, scanVars, sqliteExists, idx, warnings,
                 usedFallback>>
  /\ UNCHANGED <<exportVars, callVars>>

\* db.close(); return
ConvClose ==
  /\ cpc = "close"
  /\ \/ cpc' = "returned" /\ UNCHANGED failedOp
     \/ Caught("close")
  /\ UNCHANGED <<sqlContent, statements, scanVars, sqliteExists, idx, dbLog,
                 warnings, usedFallback>>
  /\ UNCHANGED <<exportVars, callVars>>

\* catch: execSync(`sqlite3 "<sqlite>" "VACUUM;"`), which creates the file,
\* or throws out of convertSqlToSqlite
ConvFallbackVacuum ==
  /\ cpc = "fallback"
  /\ \/ /\ cpc' = "fallback2"
        /\ sqliteExists' = TRUE
        /\ sqlFileExists' = IF samePath THEN TRUE ELSE sqlFileExists
        /\ sqlContent' = IF samePath /\ ~sqliteExists THEN <<>> ELSE sqlContent
     \/ /\ cpc' = "thrown"
        /\ UNCHANGED <<sqliteExists, sqlFileExists, sqlContent>>
  /\ UNCHANGED <<statements, scanVars, idx, dbLog, warnings, failedOp, usedFallback>>
  /\ UNCHANGED <<apc, exitCode, optionVars, callVars>>

\* catch: execSync(`sqlite3 "<sqlite>" < "<sql>"`): the shell reads the SQL
\* file, so the command fails without one; or throws
ConvFallbackLoad ==
  /\ cpc = "fallback2"
  /\ \/ sqlFileExists /\ cpc' = "returned" /\ usedFallback' = TRUE
     \/ cpc' = "thrown" /\ UNCHANGED usedFallback
  /\ UNCHANGED <<sqlContent, statements, scanVars, sqliteExists, idx, dbLog,
                 warnings, failedOp>>
  /\ UNCHANGED <<exportVars, callVars>>

NextConvert ==
  \/ ConvStart \/ ConvOpen \/ ConvRead \/ ConvSplit \/ ConvBegin \/ ConvExec
  \/ ConvCommit \/ ConvVacuum \/ ConvClose \/ ConvFallbackVacuum
  \/ ConvFallbackLoad

SpecConvert == InitConvert /\ [][NextConvert]_vars

\* ------------------------------------------------------------------------
\* The default action (export)
\* ------------------------------------------------------------------------

InitExport ==
  /\ sqlContent \in SqlFiles
  /\ pc = "idle"
  /\ ScanLocalsInit
  /\ cpc = "none"
  /\ FilesInit
  /\ ConvLocalsInit
  /\ apc = "start"
  /\ preserveSql \in BOOLEAN
  /\ hasDbName \in BOOLEAN
  /\ argc2 \in BOOLEAN
  /\ argc2 => (~hasDbName /\ ~preserveSql /\ ~samePath)
  /\ exitCode = 0
  /\ CallsIdle

\* The handler up to its first wait: with a database name it goes on to the
\* export, without one it waits for the answer to inquirer.prompt.
ExportStart ==
  /\ apc = "start"
  /\ apc' = IF hasDbName THEN "export" ELSE "prompt"
  /\ UNCHANGED <<sqlContent, statements, scanVars, convVars, sqlFileExists,
                 exitCode, optionVars, callVars>>

\* program.parse() does not wait for the handler: while the handler waits
\* for the prompt the rest of the main module runs, and without any argument
\* program.help() ends the process with code 0.
ExportHelp ==
  /\ apc = "prompt"
  /\ argc2
  /\ apc' = "exited"
  /\ exitCode' = 0
  /\ UNCHANGED <<sqlContent, statements, scanVars, convVars, sqlFileExists,
                 optionVars, callVars>>

\* The prompt is answered and the handler goes on, or the prompt rejects and
\* the outer catch exits with code 1.
ExportPrompt ==
  /\ apc = "prompt"
  /\ ~argc2
  /\ \/ apc' = "export" /\ UNCHANGED exitCode
     \/ apc' = "exited" /\ exitCode' = 1
  /\ UNCHANGED <<sqlContent, statements, scanVars, convVars, sqlFileExists,
                 optionVars, callVars>>

\* The defaults of the options and execSync(exportCommand): the export
\* writes the SQL file and the conversion is called, or it throws into the
\* outer catch, which exits with code 1.
ExportRun ==
  /\ apc = "export"
  /\ \/ /\ sqlFileExists' = TRUE
        /\ sqliteExists' = IF samePath THEN TRUE ELSE sqliteExists
        /\ apc' = "convert"
        /\ cpc' = "start"
        /\ UNCHANGED exitCode
     \/ /\ apc' = "exited"
        /\ exitCode' = 1
        /\ UNCHANGED <<sqlFileExists, sqliteExists, cpc>>
  /\ UNCHANGED <<sqlContent, statements, scanVars, idx, dbLog, warnings,
                 failedOp, usedFallback, optionVars, callVars>>

\* await convertSqlToSqlite(sqlFilePath, sqliteFilePath), step by step
ExportConvert ==
  /\ apc = "convert"
  /\ \/ ConvStart \/ ConvOpen \/ ConvRead \/ ConvSplit \/ ConvBegin \/ ConvExec
     \/ ConvCommit \/ ConvVacuum \/ ConvClose \/ ConvFallbackVacuum
     \/ ConvFallbackLoad

\* The conversion returned: fs.unlinkSync(sqlFilePath) unless --preserve-sql
\* is set; a failing unlinkSync goes to the inner catch, which exits with
\* code 1.
ExportCleanup ==
  /\ apc = "convert"
  /\ cpc = "returned"
  /\ IF ~preserveSql
     THEN \/ /\ sqlFileExists' = FALSE
             /\ sqliteExists' = IF samePath THEN FALSE ELSE sqliteExists
             /\ apc' = "done"
             /\ UNCHANGED exitCode
          \/ /\ apc' = "exited"
             /\ exitCode' = 1
             /\ UNCHANGED <<sqlFileExists, sqliteExists>>
     ELSE /\ apc' = "done"
          /\ UNCHANGED <<sqlFileExists, sqliteExists, exitCode>>
  /\ UNCHANGED <<sqlContent, statements, scanVars, cpc, idx, dbLog, warnings,
                 failedOp, usedFallback, optionVars, callVars>>

\* The conversion threw: the inner catch exits with code 1.
ExportConvertFailed ==
  /\ apc = "convert"
  /\ cpc = "thrown"
  /\ exitCode' = 1
  /\ apc' = "exited"
  /\ UNCHANGED <<sqlContent, statements, scanVars, convVars, sqlFileExists,
                 optionVars, callVars>>

NextExport ==
  \/ ExportStart \/ ExportHelp \/ ExportPrompt \/ ExportRun \/ ExportConvert
  \/ ExportCleanup \/ ExportConvertFailed

SpecExport == InitExport /\ [][NextExport]_vars

TypeOK ==
  /\ pc \in {"idle", "scan", "done"}
  /\ cpc \in {"none", "start", "open", "read", "split", "begin", "exec", "vacuum",
              "close", "returned", "fallback", "fallback2", "thrown"}
  /\ idx \in 0..Len(statements)
  /\ i \in 0..Len(sqlContent)
  /\ inString \in BOOLEAN
  /\ inComment \in BOOLEAN

\* ------------------------------------------------------------------------
\* Vocabulary of the properties
\* ------------------------------------------------------------------------

\* A loop iteration is about to run on the character char.
Scanning == pc = "scan" /\ i < Len(sqlContent)
CurChar == sqlContent[i + 1]
PrevChar == IF i > 0 THEN sqlContent[i] ELSE ""

\* The step is a loop iteration that left the result array alone and only
\* appended the scanned character to the buffer.
OnlyBuffered ==
  /\ statements' = statements
  /\ currentStatement' = Append(currentStatement, CurChar)

HasNonWhiteSpace(str) == \E k \in 1..Len(str) : str[k] \notin WhiteSpace

IsTrimmed(str) ==
  str # <<>> => (str[1] \notin WhiteSpace /\ str[Len(str)] \notin WhiteSpace)

\* t is buf without its leading and trailing whitespace, stated without Trim.
IsTrimOf(t, buf) ==
  /\ IsTrimmed(t)
  /\ \E a \in 0..Len(buf) :
       /\ a + Len(t) <= Len(buf)
       /\ t = SubSeq(buf, a + 1, a + Len(t))
       /\ \A k \in 1..a : buf[k] \in WhiteSpace
       /\ \A k \in (a + Len(t) + 1)..Len(buf) : buf[k] \in WhiteSpace

IsSubstring(t, s) ==
  \E a \in 0..Len(s) : a + Len(t) <= Len(s) /\ t = SubSeq(s, a + 1, a + Len(t))

RECURSIVE Concat(_)
Concat(ss) == IF ss = <<>> THEN <<>> ELSE Head(ss) \o Concat(Tail(ss))

RECURSIVE JoinLines(_)
JoinLines(ss) ==
  IF ss = <<>> THEN <<>>
  ELSE IF Len(ss) = 1 THEN Head(ss)
  ELSE Head(ss) \o <<"\n">> \o JoinLines(Tail(ss))

RECURSIVE NonWhiteSpace(_)
NonWhiteSpace(str) ==
  IF str = <<>> THEN <<>>
  ELSE IF Head(str) \in WhiteSpace THEN NonWhiteSpace(Tail(str))
  ELSE <<Head(str)>> \o NonWhiteSpace(Tail(str))

\* s is the statements ss in order with whitespace only before, between and
\* after them.
RECURSIVE Reconstructs(_, _)
Reconstructs(s, ss) ==
  LET rest == TrimLeft(s)
  IN IF ss = <<>> THEN rest = <<>>
     ELSE /\ Len(Head(ss)) <= Len(rest)
          /\ SubSeq(rest, 1, Len(Head(ss))) = Head(ss)
          /\ Reconstructs(SubSeq(rest, Len(Head(ss)) + 1, Len(rest)), Tail(ss))

\* ------------------------------------------------------------------------
\* Properties of splitSqlStatements
\* ------------------------------------------------------------------------

\* C1: a ";" scanned while the scanner is inside a quoted string never ends a
\* statement: the iteration emits nothing, only appends the ";" to the buffer
\* and stays in the string; the documented input with a ";" inside quotes
\* yields exactly one statement.
C1_TerminatorInStringIsNoBoundary ==
  /\ [][(Scanning /\ inString /\ CurChar = ";") => (OnlyBuffered /\ inString')]_vars
  /\ [](pc = "done" /\ sqlContent = ExStringTerminator
          => statements = <<ExStringTerminator>>)

C1_Witness ==
  /\ pc = "scan"
  /\ i > 1
  /\ sqlContent[i] = ";"
  /\ inString
  /\ statements = <<>>
  /\ currentStatement = SubSeq(sqlContent, 1, i)

\* C2: a ";" scanned while the scanner is inside a line comment never ends a
\* statement, and from the "--" that opens the comment to the newline that
\* closes it the buffer is only appended to, so the comment text is part of the
\* statement that follows; the documented input yields exactly one statement.
C2_TerminatorInCommentIsNoBoundary ==
  /\ [][(Scanning /\ inComment /\ CurChar = ";") => (OnlyBuffered /\ inComment')]_vars
  /\ [][(Scanning /\ (inComment \/ inComment')) => OnlyBuffered]_vars
  /\ [](pc = "done" /\ sqlContent = ExCommentTerminator
          => statements = <<ExCommentTerminator>>)

C2_Witness ==
  /\ pc = "scan"
  /\ i > 2
  /\ sqlContent[1] = "-" /\ sqlContent[2] = "-"
  /\ sqlContent[i] = ";"
  /\ inComment
  /\ statements = <<>>
  /\ currentStatement = SubSeq(sqlContent, 1, i)

\* C3 (as stated): consecutive top-level terminators collapse, "A;;B;" yields
\* exactly "A;" and "B;", and no emitted statement is a terminator alone.
C3_ConsecutiveTerminatorsCollapse ==
  /\ (pc = "done" /\ sqlContent = ExConsecutive)
       => statements = << <<"A", ";">>, <<"B", ";">> >>
  /\ \A k \in 1..Len(statements) : statements[k] # <<";">>

\* C4: after the scan one final statement is emitted if and only if the
\* remaining buffer has a non-whitespace character; it is the buffer without
\* its surrounding whitespace and nothing is appended to it.  An input without
\* terminator yields itself, the empty and the all-whitespace input yield
\* nothing.
C4_FinalStatement ==
  /\ [][(pc = "scan" /\ pc' = "done") =>
          IF HasNonWhiteSpace(currentStatement)
          THEN /\ Len(statements') = Len(statements) + 1
               /\ SubSeq(statements', 1, Len(statements)) = statements
               /\ IsTrimOf(statements'[Len(statements')], currentStatement)
          ELSE statements' = statements]_vars
  /\ [](pc = "done" /\ sqlContent = ExNoTerminator => statements = <<ExNoTerminator>>)
  /\ [](pc = "done" /\ ~HasNonWhiteSpace(sqlContent) => statements = <<>>)

C4_Witness ==
  /\ pc = "done"
  /\ Len(statements) = 2
  /\ HasNonWhiteSpace(currentStatement)
  /\ currentStatement[1] \in WhiteSpace
  /\ statements[2] = <<"A">>

\* C5: every returned element is non-empty and has no leading or trailing
\* whitespace; every element emitted at a terminator ends with ";" (all
\* elements during the scan, all but possibly the last one afterwards).
C5_ElementsTrimmedAndTerminated ==
  \A k \in 1..Len(statements) :
    /\ statements[k] # <<>>
    /\ IsTrimmed(statements[k])
    /\ (pc = "scan" \/ k < Len(statements) \/ ~HasNonWhiteSpace(currentStatement))
         => statements[k][Len(statements[k])] = ";"

C5_Witness ==
  /\ pc = "done"
  /\ Len(statements) = 2
  /\ sqlContent[1] \in WhiteSpace
  /\ statements[1][Len(statements[1])] = ";"
  /\ statements[2][Len(statements[2])] # ";"

\* C6: every emitted statement is a contiguous substring of the input.
C6_StatementsAreSubstrings ==
  \A k \in 1..Len(statements) : IsSubstring(statements[k], sqlContent)

C6_Witness ==
  /\ pc = "done"
  /\ Len(statements) = 2
  /\ Concat(statements) # sqlContent

\* C7: the returned statements, in order, are the input up to whitespace
\* before, between and after them: the non-whitespace characters of the input
\* are those of the statements, in the same order, each exactly once.
C7_StatementsReconstructInput ==
  pc = "done" =>
    /\ Reconstructs(sqlContent, statements)
    /\ NonWhiteSpace(Concat(statements)) = NonWhiteSpace(sqlContent)

C7_Witness ==
  /\ pc = "done"
  /\ Len(statements) = 2
  /\ Len(Concat(statements)) < Len(sqlContent)
  /\ \E k \in 1..Len(sqlContent) : sqlContent[k] \in {"'", "-"}

\* C8: splitting the re-joined result again gives the same statements (the
\* statements carry their terminators, so re-joining is concatenation, with
\* or without a line break between them).
C8_ResplitIsIdempotent ==
  pc = "done" =>
    /\ splitSqlStatements(Concat(statements)) = statements
    /\ splitSqlStatements(JoinLines(statements)) = statements

C8_Witness ==
  /\ pc = "done"
  /\ Len(statements) = 2
  /\ inString \/ inComment
  /\ Concat(statements) # sqlContent
  /\ splitSqlStatements(Concat(statements)) = statements

\* C9: inside a string a character equal to the opening quote closes the
\* string exactly when the character before it is not a backslash; after a
\* backslash it leaves the scanner in the same string.  The documented input
\* with an escaped quote yields one statement.
C9_BackslashKeepsStringOpen ==
  /\ [][(Scanning /\ inString /\ CurChar = stringChar) =>
          /\ inString' = (PrevChar = "\\")
          /\ (PrevChar = "\\" => stringChar' = stringChar)
          /\ OnlyBuffered]_vars
  /\ [](pc = "done" /\ sqlContent = ExEscapedQuote => statements = <<ExEscapedQuote>>)

C9_Witness ==
  /\ pc = "scan"
  /\ i = 4
  /\ sqlContent = <<"'", "\\", "'", ";">>
  /\ inString
  /\ stringChar = "'"
  /\ statements = <<>>

\* C12: a ";" scanned while the scanner is neither in a string nor in a
\* comment ends the statement: the buffer with that ";", without its
\* surrounding whitespace, is appended to the result and the buffer is reset;
\* also right after a closing quote and right after the end of a comment.
C12_TopLevelTerminatorIsBoundary ==
  /\ [][(Scanning /\ ~inString /\ ~inComment /\ CurChar = ";") =>
          /\ Len(statements') = Len(statements) + 1
          /\ SubSeq(statements', 1, Len(statements)) = statements
          /\ IsTrimOf(statements'[Len(statements')], Append(currentStatement, ";"))
          /\ currentStatement' = <<>>]_vars
  /\ [](pc = "done" /\ sqlContent = ExTwoStrings
          => statements = <<ExTwoStringsFirst, ExTwoStringsSecond>>)
  /\ [](pc = "done" /\ sqlContent = <<"-", "-", "\n", ";">>
          => statements = << <<"-", "-", "\n", ";">> >>)

C12_Witness ==
  /\ pc = "scan"
  /\ i = 3
  /\ SubSeq(sqlContent, 1, 3) = <<"'", "'", ";">>
  /\ statements = << <<"'", "'", ";">> >>
  /\ currentStatement = <<>>

\* C13: a quote scanned inside a line comment does not open a string, and the
\* newline that ends the comment leaves the scanner in normal mode, so the
\* terminators after the comment line are boundaries.
C13_QuoteInCommentIsInert ==
  /\ [][(Scanning /\ inComment /\ CurChar \in {"'", "\""}) =>
          (inComment' /\ ~inString' /\ OnlyBuffered)]_vars
  /\ [][(Scanning /\ inComment /\ CurChar \in {"\n", "\r"}) =>
          (~inComment' /\ ~inString')]_vars
  /\ [](pc = "done" /\ sqlContent = ExQuoteInComment
          => statements = <<ExQuoteInCommentFirst, <<"B", ";">> >>)

C13_Witness ==
  /\ pc = "scan"
  /\ i = 4
  /\ sqlContent = <<"-", "-", "'", "\n">>
  /\ ~inComment
  /\ ~inString

\* C14: a "-" scanned inside a string never starts a comment, and the quote
\* that closes the string leaves the scanner in normal mode, so a later ";"
\* on the same line is a boundary.
C14_DashesInStringAreInert ==
  /\ [][(Scanning /\ inString /\ CurChar = "-") =>
          (inString' /\ ~inComment' /\ OnlyBuffered)]_vars
  /\ [][(Scanning /\ inString /\ ~inString') => ~inComment']_vars
  /\ [](pc = "done" /\ sqlContent = ExDashInString
          => statements = <<ExDashInStringFirst, ExDashInStringSecond>>)

C14_Witness ==
  /\ pc = "scan"
  /\ i = 4
  /\ sqlContent = <<"'", "-", "-", "'">>
  /\ ~inString
  /\ ~inComment

\* C15: inside a string the other quote character neither closes the string
\* nor changes the recorded delimiter; a string is left only at a character
\* equal to the recorded delimiter, which is a quote character whenever the
\* scanner is in a string.
C15_OnlyOpeningQuoteCloses ==
  /\ [][(Scanning /\ inString /\ CurChar \in {"'", "\""} /\ CurChar # stringChar) =>
          (inString' /\ stringChar' = stringChar /\ OnlyBuffered)]_vars
  /\ [][(Scanning /\ inString /\ ~inString') => CurChar = stringChar]_vars
  /\ [](inString => stringChar \in {"'", "\""})
  /\ [](pc = "done" /\ sqlContent = ExOtherQuote => statements = <<ExOtherQuote>>)

C15_Witness ==
  /\ pc = "scan"
  /\ i = 3
  /\ SubSeq(sqlContent, 1, 3) = <<"\"", "'", ";">>
  /\ inString
  /\ stringChar = "\""
  /\ statements = <<>>

\* C16: inString and inComment are never both true, and the recorded
\* delimiter is a quote character in a string and empty outside of one: the
\* scanner is in one of Normal, InString(delimiter), InComment.
C16_StringAndCommentExclusive ==
  /\ ~(inString /\ inComment)
  /\ inString => stringChar \in {"'", "\""}
  /\ ~inString => stringChar = ""

C16_Witness ==
  /\ pc = "scan"
  /\ i = 3
  /\ SubSeq(sqlContent, 1, 3) = <<"'", "-", "-">>
  /\ inString
  /\ ~inComment

\* C17: every call returns: the scan reaches its end for every input, each
\* iteration consumes exactly the next character, the index never passes the
\* end of the input, and the function returns when all characters have been
\* consumed, also when the input ends inside a string or a comment.
C17_ScanTerminates ==
  /\ <>(pc = "done")
  /\ [][Scanning => (i' = i + 1 /\ pc' = "scan")]_vars
  /\ [](i \in 0..Len(sqlContent))
  /\ [](pc = "done" => i = Len(sqlContent))
  /\ [][pc = "done" => pc' = "done"]_vars

C17_Witness ==
  /\ pc = "done"
  /\ i = Len(sqlContent)
  /\ i >= 3
  /\ inString \/ inComment

\* C18: the result of a call depends on its argument only: whatever call
\* came before, and however the steps of a second invocation are interleaved,
\* each invocation starts from the initial lexical state and returns the
\* value of the function at its own argument, and a step of one invocation
\* leaves the locals of the other alone.
C18_ResultDependsOnInputOnly ==
  /\ [](pc = "done" => statements = splitSqlStatements(sqlContent))
  /\ [](other.pc = "done" => other.st.statements = splitSqlStatements(other.sqlContent))
  /\ []((pc = "scan" /\ i = 0) => Locals = InitScan)
  /\ [][other' # other => UNCHANGED <<sqlContent, statements, scanVars>>]_vars
  /\ [][<<sqlContent, statements, scanVars>>' # <<sqlContent, statements, scanVars>>
          => other' = other]_vars

C18_Witness ==
  /\ pc = "done"
  /\ calls = 2
  /\ prevEnd = "string"
  /\ Len(statements) = 2
  /\ other.pc = "scan"
  /\ other.st.i = 1

\* ------------------------------------------------------------------------
\* Properties of convertSqlToSqlite
\* ------------------------------------------------------------------------

StmtCalls == SelectSeq(dbLog, LAMBDA e : e.op = "stmt")
FailedStmtCalls == SelectSeq(dbLog, LAMBDA e : e.op = "stmt" /\ ~e.ok)
OuterOps == {"open", "read", "begin", "commit", "vacuum", "close"}

\* C10: the statements of the splitter are executed once each, in the
\* splitter's order, after BEGIN and before COMMIT; a failing statement is
\* reported as a warning and the loop goes on with the next statement; the
\* command line fallback is entered only by a failure of an operation other
\* than the execution of a statement.
C10_StatementFailureIsTolerated ==
  /\ [](cpc = "exec" =>
          /\ Len(dbLog) = idx + 1
          /\ dbLog[1] = DbCall("begin", <<>>, TRUE)
          /\ \A k \in 1..idx : dbLog[k + 1].op = "stmt" /\ dbLog[k + 1].sql = statements[k])
  /\ [](cpc \in {"vacuum", "close"} \/ (cpc = "returned" /\ ~usedFallback) =>
          /\ Len(StmtCalls) = Len(statements)
          /\ \A k \in 1..Len(statements) :
               dbLog[k + 1].op = "stmt" /\ dbLog[k + 1].sql = statements[k]
          /\ dbLog[1] = DbCall("begin", <<>>, TRUE)
          /\ dbLog[Len(statements) + 2] = DbCall("commit", <<>>, TRUE))
  /\ [](Len(warnings) = Len(FailedStmtCalls) /\
        \A k \in 1..Len(warnings) :
          warnings[k] = Substring0(FailedStmtCalls[k].sql, WarnPrefixLen))
  /\ [](failedOp # "" => failedOp \in OuterOps)
  /\ [][(cpc = "exec" /\ idx < Len(statements)) => (cpc' = "exec" /\ idx' = idx + 1)]_vars

C10_Witness ==
  /\ cpc = "returned"
  /\ ~usedFallback
  /\ Len(statements) = 2
  /\ ~dbLog[2].ok
  /\ dbLog[3].ok
  /\ warnings = <<statements[1]>>
  /\ dbLog[4] = DbCall("commit", <<>>, TRUE)

\* ------------------------------------------------------------------------
\* Properties of the default action
\* ------------------------------------------------------------------------

\* C11: when the action completes, the conversion has returned and the SQL
\* file exists exactly when --preserve-sql is set; once the conversion has
\* been called the file is missing only after the conversion returned, without
\* --preserve-sql and with the action completed, so it is there all through
\* the conversion and after a conversion that threw; when the conversion
\* threw, the exit code is 1.
C11_SqlFileCleanup ==
  /\ apc = "done" =>
       (cpc = "returned" /\ exitCode = 0 /\ sqlFileExists = preserveSql)
  /\ (cpc # "none" /\ ~sqlFileExists) =>
       (apc = "done" /\ cpc = "returned" /\ ~preserveSql)
  /\ (apc = "exited" /\ cpc = "thrown") => exitCode = 1

====
